---- MODULE Spec2Model ----
(***************************************************************************)
(* A model of the obsidion-bridge session state machine                    *)
(* (src/src/bridge-connection.ts) with its envelope codec                  *)
(* (src/src/json-rpc.ts), crypto wrappers (src/src/encryption.ts) and      *)
(* facade (Bridge.create / Bridge.join).                                   *)
(*                                                                         *)
(* One session is modelled: a Creator and a Joiner, each a BridgeConnection*)
(* object, joined by an untrusted relay.  Event listeners are taken to     *)
(* return without waiting, so the only places where a handler of the core  *)
(* is suspended across other events are its own timers: the CHUNK_WAIT     *)
(* pacing delay of sendEncryptedJsonRpcRequest, the reconnect timer and    *)
(* the ping timer.                                                         *)
(***************************************************************************)
EXTENDS Integers, Sequences, FiniteSets, TLC

\* ------------------------------------------------------------------ bounds

\* Fresh random 16-byte ids (outer JSON-RPC ids and chunk ids) available.
MaxIds == 5
\* Ids the relay can invent for envelopes it forges or re-wraps.
NumAdvIds == 1
\* sendSecureMessage calls made by the two applications together.
MaxSends == 1
\* Faults of one run: transport closes the network causes, close() calls of
\* the applications, and envelopes the relay forges, re-wraps or echoes.
MaxFaults == 1
\* options.reconnectAttempts, the most reconnect attempts in a row.
MaxReconnectAttempts == 3
\* Functions registered for one event type.
MaxListeners == 2
\* Envelopes one peer is sent under ids that neither connection drew.
MaxExtraIds == 2

\* ------------------------------------------------------- program constants

\* One unit of blob length is 8192 base64 characters, so CHUNK_SIZE = 16384
\* characters is 2 units.
CHUNK_SIZE == 2
\* A falsy id (missing, null, "" or 0): `!data.id`.
NoId == 0
\* The value Date.now() returns; any positive instant.
Now == 5000

Peers == {"creator", "joiner"}
Other(p) == IF p = "creator" THEN "joiner" ELSE "creator"

AdvIds == (MaxIds + 1)..(MaxIds + NumAdvIds)

\* ------------------------------------------------------------------ crypto

\* Key pairs are named; a name stands for the private key and for the public
\* key of the pair.  "bad" is a byte string that is no curve point.
KeyOf(p) == IF p = "creator" THEN "kA" ELSE "kB"
NoKey == "none"
NoSecret == {}

\* getSharedSecret: ECDH is symmetric in the two pairs; noble throws on bytes
\* that are no valid public key.
SharedSecretThrows(publicKey) == publicKey \in {"bad", NoKey}
getSharedSecret(privateKey, publicKey) == {privateKey, publicKey}

\* The bridge id is the Creator's public key in hex, for both roles; the AEAD
\* nonce is sha256(bridgeId)[0..12].
bridgeId == "hex(kA)"
sha256Truncate(topic) == <<"sha256/12", topic>>

\* Plaintexts.  kind "text" is a bare string (the greeting), kind "json" is the
\* JSON of an inner message {method, params, chunk?}.  pstr says params is a
\* string (a piece of the base64 blob) and not an object; hasChunk says the
\* chunk field is there.
Plain(kind, method, pstr, params, hasChunk, cid, index, length) ==
  [kind |-> kind, method |-> method, pstr |-> pstr, params |-> params,
   hasChunk |-> hasChunk, cid |-> cid, index |-> index, length |-> length]
Text(s) == Plain("text", s, FALSE, <<>>, FALSE, NoId, 0, 0)
\* JSON.stringify({method, params: {}})
InnerEmpty(method) == Plain("json", method, FALSE, <<>>, FALSE, NoId, 0, 0)
\* JSON.stringify({method, params: chunk, chunk: {id, index, length}})
InnerChunk(method, piece, cid, index, length) ==
  Plain("json", method, TRUE, piece, TRUE, cid, index, length)

\* AES-256-GCM: decryption succeeds exactly under the key and nonce used to
\* encrypt.
encrypt(message, sharedSecret, nonce) ==
  [pt |-> message, key |-> sharedSecret, nonce |-> sha256Truncate(nonce)]
DecryptThrows(ciphertext, sharedSecret, nonce) ==
  \/ ciphertext.key # sharedSecret
  \/ ciphertext.nonce # sha256Truncate(nonce)
decrypt(ciphertext, sharedSecret, nonce) == ciphertext.pt
\* Bytes that are no ciphertext of anything (also what a missing field gives).
Garbage == [pt |-> Text("garbage"), key |-> {"garbage"}, nonce |-> <<"none">>]

\* ------------------------------------------------------------- compression

\* Application params.  "none" is an absent or null params, "empty" is {}.
Params == {"none", "empty", "big", "large"}
\* base64(deflate(JSON.stringify(params))) as a sequence of length units.
Blob(params) ==
  CASE params = "empty" -> <<"e1">>
    [] params = "big" -> <<"b1", "b2", "b3">>
    [] params = "large" -> <<"l1", "l2", "l3", "l4">>
    [] OTHER -> <<>>
\* JSON.parse(inflate(base64decode(blob))): defined on the blobs of values.
InflateThrows(blob) == \A v \in Params \ {"none"} : Blob(v) # blob
Inflate(blob) == CHOOSE v \in Params \ {"none"} : Blob(v) = blob

\* ------------------------------------------------------------------ frames

\* An origin is <<scheme, host>> or <<scheme, host, port>>; a string that is
\* no URL is <<string>>; <<>> is an absent origin.
NoOrigin == <<>>
OriginA == <<"https", "a.com">>
OriginAPort == <<"https", "a.com", "8080">>
OriginB == <<"https", "b.com">>
OriginNode == <<"nodejs">>

\* parseOriginHeader: scheme://host without the port; the string itself when it
\* is no URL.
parseOriginHeader(origin) ==
  IF Len(origin) >= 2 THEN <<origin[1], origin[2]>> ELSE origin

\* An outer envelope.  src is who put it on the wire (not seen by the code);
\* pubkey = NoKey stands for a frame without params.
Frame(src, id, method, origin, pubkey, greeting, payload) ==
  [src |-> src, id |-> id, method |-> method, origin |-> origin,
   pubkey |-> pubkey, greeting |-> greeting, payload |-> payload]

\* createJsonRpcRequest("encryptedMessage", {payload}), with the origin the
\* relay attaches for the sender.
EncryptedFrame(src, id, origin, payload) ==
  Frame(src, id, "encryptedMessage", origin, NoKey, Garbage, payload)

\* An emitted event.
Ev(type, method, params, info, a, b) ==
  [type |-> type, method |-> method, params |-> params, info |-> info,
   a |-> a, b |-> b]
EvSimple(type, info) == Ev(type, "", "none", info, NoOrigin, NoOrigin)
EvMessage(method, params) ==
  Ev("MessageReceived", method, params, "", NoOrigin, NoOrigin)

\* ------------------------------------------------------------------- state

VARIABLES
  conn,       \* conn[p]: the BridgeConnection object of peer p
  wire,       \* envelopes the peers have sent to the relay
  nextId,     \* the next unused random id
  emitted,    \* the last step: who acted, on what, and the events emitted in order
  received,   \* received[p]: the MessageReceived events of p, in order
  sceCount,   \* sceCount[p]: SecureChannelEstablished emissions of p
  sent,       \* the sendSecureMessage calls that went on the wire
  budget      \* what the environment has used of its bounds

vars == <<conn, wire, nextId, emitted, received, sceCount, sent, budget>>

\* The origin the relay attaches to what p sends: p's Origin header.
OriginHeader(c) == IF c.origin = NoOrigin THEN OriginNode ELSE c.origin

EmptyMap == [i \in {} |-> 0]

\* The event types the applications subscribe to in the model, and the
\* functions they register: "once" calls its own unsubscribe function when it
\* is invoked, the others do nothing to the connection.
ListenerTypes == {"Connected", "Error"}
Callbacks == {"f", "g", "once"}

\* new BridgeConnection(options), then what create()/join() do before connect.
\* Beside the fields of the class: websocket is the state of the socket the
\* object holds ("none" for undefined) and sockGen counts the sockets it has
\* had; mocId is the id in the moc parameter of the current socket's URL;
\* hsPending holds, per handleHandshake call waiting in its pacing delay, the
\* ids of the hello it sent; tasks holds the sendSecureMessage calls in
\* flight; eventListeners says the listeners are still registered, cleanedUp
\* that _handleCleanup has run; reconnectTimer and pingTimer say the timer is
\* armed.
NewConnection(p, origin, domain, resume) ==
  LET remote == IF p = "joiner" THEN "kA" ELSE IF resume THEN "kB" ELSE NoKey
  IN [role |-> p,
      origin |-> IF p = "creator" THEN origin ELSE NoOrigin,
      bridgeOrigin |-> IF p = "joiner" THEN domain ELSE NoOrigin,
      keyPair |-> KeyOf(p),
      remotePublicKey |-> remote,
      sharedSecret |->
        IF remote = NoKey THEN NoSecret ELSE getSharedSecret(KeyOf(p), remote),
      websocket |-> "none",
      sockGen |-> 0,
      mocId |-> NoId,
      secureChannelEstablished |-> resume,
      resumedSession |-> resume,
      intentionalClose |-> FALSE,
      reconnect |-> TRUE,
      reconnectAttempts |-> 0,
      reconnectTimer |-> FALSE,
      reconnectIn |-> 0,
      pingTimer |-> FALSE,
      isReconnecting |-> FALSE,
      isConnected |-> FALSE,
      validMessagesReceived |-> 0,
      lastMessageTimestamp |-> 0,
      incompleteMessages |-> EmptyMap,
      seenMessageIds |-> {},
      eventListeners |-> TRUE,
      listeners |-> [t \in ListenerTypes |-> <<>>],
      cleanedUp |-> FALSE,
      hsPending |-> {},
      tasks |-> {}]

\* The place of an envelope in a step that handles none.
NoFrame == Frame("none", NoId, "none", NoOrigin, NoKey, Garbage, Garbage)
NoEvents == [peer |-> "none", op |-> "init", frame |-> NoFrame, evs |-> <<>>]

\* limit is the number of faults the run may have: transport closes the
\* network causes, close() calls, and envelopes the relay forges or echoes;
\* sendLimit the number of sendSecureMessage calls, idLimit the number of
\* fresh ids.
InitBounded(origin, resumeC, resumeJ, reconnect, limit, sendLimit, idLimit) ==
  /\ conn = [p \in Peers |->
               [NewConnection(p, origin, origin,
                              IF p = "creator" THEN resumeC ELSE resumeJ)
                  EXCEPT !.reconnect = reconnect]]
  /\ wire = {}
  /\ nextId = 1
  /\ emitted = NoEvents
  /\ received = [p \in Peers |-> <<>>]
  /\ sceCount = [p \in Peers |-> 0]
  /\ sent = <<>>
  /\ budget = [faults |-> 0, sends |-> 0, limit |-> limit,
               sendLimit |-> sendLimit, idLimit |-> idLimit]

InitState(origin, resumeC, resumeJ, reconnect, limit) ==
  InitBounded(origin, resumeC, resumeJ, reconnect, limit, MaxSends, MaxIds)

InitWith(origin, resumeC, resumeJ) == InitState(origin, resumeC, resumeJ, TRUE, MaxFaults)

\* A fresh session, or one both applications resume from stored keys.
Init == \E resume \in BOOLEAN : InitWith(OriginA, resume, resume)

\* ----------------------------------------------------------- the handlers

\* What a handler did: the object afterwards, the events it emitted in order,
\* the envelopes it put on the wire and the number of fresh ids it drew.
Result(c, ev, out, used) == [c |-> c, ev |-> ev, out |-> out, used |-> used]

MapPut(m, k, v) == [x \in DOMAIN m \cup {k} |-> IF x = k THEN v ELSE m[x]]
MapDel(m, k) == [x \in DOMAIN m \ {k} |-> m[x]]

\* The slots concatenated from the last index down.
RECURSIVE JoinChunksReversed(_, _)
JoinChunksReversed(chunks, n) ==
  IF n = 0 THEN <<>> ELSE chunks[n - 1] \o JoinChunksReversed(chunks, n - 1)

\* message.chunks.join(""): the slots 0..n-1 concatenated in index order.
RECURSIVE JoinChunks(_, _)
JoinChunks(chunks, n) ==
  IF n = 0 THEN <<>> ELSE JoinChunks(chunks, n - 1) \o chunks[n - 1]

\* The loop over message.chunks: no slot of the array is undefined.
allChunksReceived(message) ==
  \A i \in 0..(message.arrLen - 1) : i \in DOMAIN message.chunks

Max(a, b) == IF a >= b THEN a ELSE b

ErrDecrypt == EvSimple("Error", "Error decrypting message")

\* One buffer for all chunk groups.
ChunkKeyShared(inner) == NoId
\* The key of the buffer of a chunk: decryptedJson.chunk.id.
ChunkKey(inner) == inner.cid

\* handleEncryptedMessage, the chunked branch (bridge-connection.ts 425-473).
handleChunk(c, inner) ==
  LET id == ChunkKey(inner)
      fresh == id \notin DOMAIN c.incompleteMessages
      created == IF fresh
                 THEN MapPut(c.incompleteMessages, id,
                             [chunks |-> EmptyMap, arrLen |-> inner.length,
                              expectedChunks |-> inner.length])
                 ELSE c.incompleteMessages
      message == created[id]
      stored == [message EXCEPT
                   !.chunks = MapPut(@, inner.index, inner.params),
                   !.arrLen = Max(@, inner.index + 1)]
      withChunk == MapPut(created, id, stored)
      chunkEv == Ev("ChunkReceived", inner.method, "none", "", NoOrigin, NoOrigin)
      fullMessage == JoinChunks(stored.chunks, stored.arrLen)
  IN IF message.expectedChunks # inner.length
     THEN Result([c EXCEPT !.incompleteMessages = created], <<ErrDecrypt>>, {}, 0)
     ELSE IF ~allChunksReceived(stored)
     THEN Result([c EXCEPT !.incompleteMessages = withChunk], <<chunkEv>>, {}, 0)
     ELSE IF InflateThrows(fullMessage)
     THEN Result([c EXCEPT !.incompleteMessages = withChunk],
                 <<chunkEv, ErrDecrypt>>, {}, 0)
     ELSE Result([c EXCEPT !.incompleteMessages = MapDel(withChunk, id)],
                 <<chunkEv, EvMessage(inner.method, Inflate(fullMessage))>>, {}, 0)

\* handleEncryptedMessage, the single-part branch (bridge-connection.ts 388-423).
handleSinglePart(c, inner) ==
  IF inner.method = "hello" /\ ~c.secureChannelEstablished
  THEN Result([c EXCEPT !.secureChannelEstablished = TRUE],
              <<EvSimple("SecureChannelEstablished", "")>>, {}, 0)
  ELSE IF inner.pstr /\ Len(inner.params) > 0
  THEN IF InflateThrows(inner.params)
       THEN Result(c, <<ErrDecrypt>>, {}, 0)
       ELSE Result(c, <<EvMessage(inner.method, Inflate(inner.params))>>, {}, 0)
  ELSE Result(c, <<EvMessage(inner.method, IF inner.pstr THEN "emptystring" ELSE "empty")>>,
              {}, 0)

\* handleEncryptedMessage (bridge-connection.ts 381-482).
handleEncryptedMessage(c, data) ==
  IF \/ c.sharedSecret = NoSecret
     \/ DecryptThrows(data.payload, c.sharedSecret, bridgeId)
     \/ decrypt(data.payload, c.sharedSecret, bridgeId).kind # "json"
  THEN Result(c, <<ErrDecrypt>>, {}, 0)
  ELSE LET inner == decrypt(data.payload, c.sharedSecret, bridgeId)
       IN IF ~inner.hasChunk \/ inner.length = 1
          THEN handleSinglePart(c, inner)
          ELSE handleChunk(c, inner)

\* ------------------------------------------------------- outbound pipeline

CeilDiv(a, b) == (a + b - 1) \div b
Min(a, b) == IF a <= b THEN a ELSE b

\* A slice that starts one unit early.
ChunkSliceOverlapping(compressed, i) ==
  SubSeq(compressed, IF i = 0 THEN 1 ELSE i * CHUNK_SIZE,
         Min(i * CHUNK_SIZE + CHUNK_SIZE, Len(compressed)))

\* A slice that loses its last unit.
ChunkSliceShort(compressed, i) ==
  SubSeq(compressed, i * CHUNK_SIZE + 1,
         Min(i * CHUNK_SIZE + CHUNK_SIZE, Len(compressed)) - 1)

\* compressed.slice(i * CHUNK_SIZE, min(i * CHUNK_SIZE + CHUNK_SIZE, length))
ChunkSlice(compressed, i) ==
  SubSeq(compressed, i * CHUNK_SIZE + 1, Min(i * CHUNK_SIZE + CHUNK_SIZE, Len(compressed)))

\* getEncryptedJsonPayload: the envelopes of one call, in sending order.  The
\* chunk id is drawn first (firstId), then one outer id per envelope.
getEncryptedJsonPayload(src, origin, method, params, sharedSecret, nonce, firstId) ==
  IF params # "none"
  THEN LET compressed == Blob(params)
           numChunks == CeilDiv(Len(compressed), CHUNK_SIZE)
       IN [i \in 1..numChunks |->
             EncryptedFrame(src, firstId + i, origin,
               encrypt(InnerChunk(method, ChunkSlice(compressed, i - 1),
                                  firstId, i - 1, numChunks),
                       sharedSecret, nonce))]
  ELSE <<EncryptedFrame(src, firstId, origin,
                        encrypt(InnerEmpty(method), sharedSecret, nonce))>>

\* The fresh ids one call draws.
IdsDrawn(params) ==
  IF params # "none" THEN 1 + CeilDiv(Len(Blob(params)), CHUNK_SIZE) ELSE 1

\* result.messageIds.  json-rpc.ts as it is here returns a boolean, not the
\* object bridge-connection.ts reads; the ids are taken to be the outer ids of
\* the envelopes of the call ("every outbound envelope's id is also added to
\* seen_message_ids").
messageIds(frames) == {frames[i].id : i \in DOMAIN frames}

\* ------------------------------------------------------------- handshake

ErrHandshake == EvSimple("Error", "Error handling handshake")
ErrEstablished ==
  EvSimple("Error", "Secure channel already established, ignoring handshake")
\* A control frame (pong, error, replay) the object sends with websocket.send:
\* it carries no id and is kept in the step's list as a "Sent" entry.
SentCtl(method) == Ev("Sent", method, "none", "", NoOrigin, NoOrigin)

\* handleHandshake without the comparison of the keys.
RemoteKeyNeverDiffers(stored, joinerPublicKey) == FALSE

\* `this.remotePublicKey !== joinerPublicKey`: joinerPublicKey is a Uint8Array
\* allocated for this frame, and !== on objects compares identity.
RemoteKeyDiffers(stored, joinerPublicKey) == TRUE

\* handleHandshake without the check of the greeting.
GreetingInvalidNever(greeting, secret) == FALSE
\* The greeting does not decrypt under the derived secret, or is not "hello"
\* (bridge-connection.ts 344-345).
GreetingInvalid(greeting, secret) ==
  \/ DecryptThrows(greeting, secret, bridgeId)
  \/ decrypt(greeting, secret, bridgeId) # Text("hello")

\* handleHandshake up to the pacing wait of the hello it sends
\* (bridge-connection.ts 317-356 and 369-375).
handleHandshake(c, data, firstId) ==
  IF data.pubkey = NoKey
  THEN Result(c, <<ErrHandshake>>, {}, 0)
  ELSE IF c.secureChannelEstablished /\ RemoteKeyDiffers(c.remotePublicKey, data.pubkey)
  THEN Result(c, <<ErrEstablished, SentCtl("error")>>, {}, 0)
  ELSE LET c1 == [c EXCEPT !.remotePublicKey = data.pubkey]
           secret == getSharedSecret(c.keyPair, data.pubkey)
           c2 == [c1 EXCEPT !.sharedSecret = secret]
           frames == getEncryptedJsonPayload(c.role, OriginHeader(c), "hello", "none",
                                             secret, bridgeId, firstId)
       IN IF SharedSecretThrows(data.pubkey)
          THEN Result(c1, <<ErrHandshake>>, {}, 0)
          ELSE IF GreetingInvalid(data.greeting, secret)
          THEN Result(c2, <<ErrHandshake>>, {}, 0)
          ELSE Result([c2 EXCEPT !.hsPending = @ \cup {messageIds(frames)}],
                      <<>>, {frames[1]}, 1)

\* handleHandshake after the wait, were the flag not looked at again.
handleHandshakeResumeAlways(c, ids) ==
  Result([c EXCEPT !.hsPending = @ \ {ids}, !.seenMessageIds = @ \cup ids,
                   !.secureChannelEstablished = TRUE],
         <<EvSimple("SecureChannelEstablished", "")>>, {}, 0)

\* handleHandshake after the wait (bridge-connection.ts 357-368).
handleHandshakeResume(c, ids) ==
  LET c1 == [c EXCEPT !.hsPending = @ \ {ids},
                      !.seenMessageIds = @ \cup ids]
  IN IF c1.secureChannelEstablished
     THEN Result(c1, <<>>, {}, 0)
     ELSE Result([c1 EXCEPT !.secureChannelEstablished = TRUE],
                 <<EvSimple("SecureChannelEstablished", "")>>, {}, 0)

\* ---------------------------------------------------------------- dispatch

\* A ping that is also counted as a message received.
handlePingCounted(c, data) ==
  Result([c EXCEPT !.validMessagesReceived = @ + 1], <<SentCtl("pong")>>, {}, 0)
\* The ping branch of handleWebSocketMessage (bridge-connection.ts 251-255).
handlePing(c, data) == Result(c, <<SentCtl("pong")>>, {}, 0)

\* handleWebSocketMessage without the test of the id.
HasNoIdNever(data) == FALSE
\* `!data.id`: the envelope has no id.
HasNoId(data) == data.id = NoId

\* handleWebSocketMessage without the duplicate check.
IsDuplicateNever(c, data) == FALSE
\* The duplicate check of handleWebSocketMessage.
IsDuplicate(c, data) == data.id \in c.seenMessageIds

\* handleWebSocketMessage without the check of the origin.
OriginMismatchNever(c, data) == FALSE
\* The Joiner's check of the outer origin.
OriginMismatch(c, data) ==
  /\ c.role = "joiner"
  /\ c.bridgeOrigin # NoOrigin
  /\ (IF data.origin # NoOrigin THEN parseOriginHeader(data.origin) ELSE NoOrigin)
       # c.bridgeOrigin

ErrOrigin(c, data) ==
  Ev("Error", "", "none", "Origin does not match expected origin",
     IF data.origin # NoOrigin THEN parseOriginHeader(data.origin) ELSE NoOrigin,
     c.bridgeOrigin)

\* handleWebSocketMessage (bridge-connection.ts 250-312).
handleWebSocketMessage(c, data, firstId) ==
  IF data.method = "ping" THEN handlePing(c, data)
  ELSE IF data.method = "pong" THEN Result(c, <<>>, {}, 0)
  ELSE IF HasNoId(data) THEN Result(c, <<>>, {}, 0)
  ELSE IF IsDuplicate(c, data) THEN Result(c, <<>>, {}, 0)
  ELSE LET c1 == [c EXCEPT !.seenMessageIds = @ \cup {data.id},
                           !.validMessagesReceived = @ + 1,
                           !.lastMessageTimestamp = Now]
       IN IF c.role = "creator" /\ data.method = "handshake"
          THEN handleHandshake(c1, data, firstId)
          ELSE IF data.method = "encryptedMessage"
          THEN IF OriginMismatch(c1, data)
               THEN Result(c1, <<ErrOrigin(c1, data)>>, {}, 0)
               ELSE handleEncryptedMessage(c1, data)
          ELSE Result(c1, <<>>, {}, 0)

\* websocket.onmessage (bridge-connection.ts 182-196): text that JSON.parse
\* rejects, or that parses to null, ends in the catch; anything else goes to
\* handleWebSocketMessage.
ErrParsing == EvSimple("Error", "Error parsing message")
onmessage(c, data, firstId) ==
  IF data.method = "unparseable"
  THEN Result(c, <<ErrParsing>>, {}, 0)
  ELSE handleWebSocketMessage(c, data, firstId)

\* ------------------------------------------------------ connection control

\* resetReconnection (bridge-connection.ts 523-531).
resetReconnection(c) ==
  [c EXCEPT !.reconnectTimer = FALSE, !.reconnectAttempts = 0, !.isReconnecting = FALSE]

\* The delay before the k-th consecutive attempt, in milliseconds
\* (bridge-connection.ts 498-504).
ReconnectInFlat(k) == 1000
ReconnectIn(k) == IF k > 1 THEN 1000 * 2 ^ (k - 2) ELSE 0

\* handleReconnect taking the exhausted branch whatever the attempt count.
handleReconnectGivesUp(c) ==
  resetReconnection([c EXCEPT !.reconnectAttempts = @ + 1])

\* handleReconnect up to setting the timer (bridge-connection.ts 487-506);
\* reconnectIn is the delay the timer was set with.
handleReconnect(c) ==
  IF c.reconnectAttempts + 1 > MaxReconnectAttempts
  THEN resetReconnection([c EXCEPT !.reconnectAttempts = @ + 1])
  ELSE [c EXCEPT !.reconnectAttempts = @ + 1, !.isReconnecting = TRUE,
                 !.reconnectTimer = TRUE,
                 !.reconnectIn = ReconnectIn(c.reconnectAttempts + 1)]

\* _handleCleanup (bridge-connection.ts 753-786).
handleCleanup(c) ==
  [c EXCEPT !.reconnectTimer = FALSE, !.pingTimer = FALSE, !.websocket = "none",
            !.secureChannelEstablished = FALSE, !.sharedSecret = NoSecret,
            !.remotePublicKey = NoKey, !.eventListeners = FALSE, !.cleanedUp = TRUE,
            !.listeners = [t \in ListenerTypes |-> <<>>]]

\* _getWsConnectionUrl: whether the URL carries a moc handshake
\* (bridge-connection.ts 661-681).
UrlHasMocAlways(c) == c.role = "joiner"
UrlHasMocNever(c) == FALSE
UrlHasMoc(c) == c.role = "joiner" /\ ~c.secureChannelEstablished

\* The handshake envelope of the moc parameter, which the relay broadcasts
\* when the socket opens.
MocFrame(c) ==
  Frame(c.role, c.mocId, "handshake", OriginHeader(c), c.keyPair,
        encrypt(Text("hello"), c.sharedSecret, bridgeId), Garbage)

\* getWebSocketClient(url) and setupWebSocketHandlers: a new socket, connecting.
OpenSocket(c, firstId) ==
  [c EXCEPT !.websocket = "connecting", !.sockGen = @ + 1,
            !.mocId = IF UrlHasMoc(c) THEN firstId ELSE NoId]

\* The timestamp of the replay request (bridge-connection.ts 166).
ReplayFromLast(lastMessageTimestamp) == lastMessageTimestamp
ReplayFrom(lastMessageTimestamp) == lastMessageTimestamp - 1000
\* The replay request as sent: a carries its timestamp.
SentReplay(c) == [SentCtl("replay") EXCEPT !.a = <<ReplayFrom(c.lastMessageTimestamp)>>]

\* What the first onopen emits after Connected (bridge-connection.ts 173-177).
ResumedEventsNone(c) == <<>>
ResumedEvents(c) ==
  IF c.resumedSession THEN <<EvSimple("SecureChannelEstablished", "")>> ELSE <<>>

\* websocket.onopen (bridge-connection.ts 141-180).
onopen(c) ==
  LET c1 == [c EXCEPT !.websocket = "open", !.isConnected = TRUE, !.pingTimer = TRUE]
  IN IF c1.isReconnecting
     THEN Result(resetReconnection(c1),
                 (IF c1.lastMessageTimestamp > 0 THEN <<SentReplay(c1)>> ELSE <<>>)
                   \o <<EvSimple("Connected", "reconnection")>>,
                 {}, 0)
     ELSE Result([c1 EXCEPT !.lastMessageTimestamp = IF @ = 0 THEN Now ELSE @],
                 <<EvSimple("Connected", "initial")>> \o ResumedEvents(c1),
                 {}, 0)

\* willReconnect of the Disconnected event (bridge-connection.ts 212).
WillReconnectAlways(c) == TRUE
WillReconnect(c) == ~c.intentionalClose /\ c.isConnected /\ c.reconnect

\* onclose leaving the ping timer running.
ClearPingTimerNot(c) == c
\* if (this.pingTimer) clearInterval(this.pingTimer) (bridge-connection.ts 203).
ClearPingTimer(c) == [c EXCEPT !.pingTimer = FALSE]

\* websocket.onclose (bridge-connection.ts 198-244).  The Disconnected event
\* carries wasIntentionalClose in method and willReconnect in info.
\* The test that the closed socket never opened (bridge-connection.ts 225).
FailedBeforeOpenNever(c) == FALSE
FailedBeforeOpen(c) == ~c.isConnected

onclose(c) ==
  LET c1 == ClearPingTimer([c EXCEPT !.websocket = "closed"])
      disconnected ==
        IF c1.isConnected
        THEN <<Ev("Disconnected",
                  IF c1.intentionalClose THEN "intentional" ELSE "unintentional",
                  "none",
                  IF WillReconnect(c1) THEN "willReconnect" ELSE "wontReconnect",
                  NoOrigin, NoOrigin)>>
        ELSE <<>>
  IN IF c1.intentionalClose
     THEN Result(handleCleanup(c1), disconnected, {}, 0)
     ELSE IF FailedBeforeOpen(c1)
     THEN Result(c1, disconnected \o <<EvSimple("FailedToConnect", "")>>, {}, 0)
     ELSE LET c2 == [c1 EXCEPT !.isConnected = FALSE]
          IN Result(IF c2.reconnect THEN handleReconnect(c2) ELSE c2, disconnected, {}, 0)

\* ----------------------------------------------------------------- actions

SceEvents(evs) ==
  Cardinality({i \in DOMAIN evs : evs[i].type = "SecureChannelEstablished"})
MessageEvents(evs) == SelectSeq(evs, LAMBDA e : e.type = "MessageReceived")
\* The log entry of a MessageReceived event: what the listener was given, and
\* the outer id and the chunk id (NoId when it has none) of the envelope whose
\* handling emitted it.
Logged(evs, f) ==
  [i \in DOMAIN evs |-> [method |-> evs[i].method, params |-> evs[i].params,
                         id |-> f.id, chunk |-> f.payload.pt.cid]]

\* One step of peer p that ran a handler with result r on envelope f (NoFrame
\* when the step handles none).
Apply(p, op, f, r) ==
  /\ r.used = 0 \/ nextId + r.used - 1 <= budget.idLimit
  /\ conn' = [conn EXCEPT ![p] = r.c]
  /\ wire' = wire \cup r.out
  /\ nextId' = nextId + r.used
  /\ emitted' = [peer |-> p, op |-> op, frame |-> f, evs |-> r.ev]
  /\ received' = [received EXCEPT ![p] = @ \o Logged(MessageEvents(r.ev), f)]
  /\ sceCount' = [sceCount EXCEPT ![p] = @ + SceEvents(r.ev)]

\* connection.connect(url) as create() and join() call it.
Connect(p) ==
  /\ conn[p].websocket = "none"
  /\ conn[p].sockGen = 0
  /\ ~conn[p].intentionalClose
  /\ Apply(p, "connect", NoFrame,
           Result(OpenSocket(conn[p], nextId), <<>>, {},
                  IF UrlHasMoc(conn[p]) THEN 1 ELSE 0))
  /\ UNCHANGED <<sent, budget>>

\* The relay accepts the socket: it broadcasts the moc, and onopen runs.
Open(p) ==
  /\ conn[p].websocket = "connecting"
  /\ LET r == onopen(conn[p])
     IN Apply(p, "open", NoFrame,
              Result(r.c, r.ev,
                     IF conn[p].mocId # NoId THEN {MocFrame(conn[p])} ELSE {}, 0))
  /\ UNCHANGED <<sent, budget>>

\* websocket.onmessage for envelope f.
Deliver(p, f, op) ==
  /\ conn[p].websocket = "open"
  /\ Apply(p, op, f, onmessage(conn[p], f, nextId))
  /\ budget' = [budget EXCEPT !.faults = IF op \notin {"receive", "replay"} THEN @ + 1 ELSE @]
  /\ UNCHANGED sent

\* The relay forwards an envelope of the other peer that p has not had yet.
Receive(p) ==
  \E f \in wire :
    f.src # p /\ f.id \notin conn[p].seenMessageIds /\ Deliver(p, f, "receive")

\* The relay sends p again an envelope it has delivered to p before.
Replay(p) ==
  \E f \in wire :
    f.src # p /\ f.id \in conn[p].seenMessageIds /\ Deliver(p, f, "replay")

\* The relay sends p one of p's own envelopes.
Echo(p) ==
  /\ budget.faults < budget.limit
  /\ \E f \in wire : f.src = p /\ Deliver(p, f, "echo")

\* The CHUNK_WAIT of the hello of a handshake is over.
HandshakeResume(p) ==
  \E ids \in conn[p].hsPending :
    /\ Apply(p, "handshakeResume", NoFrame, handleHandshakeResume(conn[p], ids))
    /\ UNCHANGED <<sent, budget>>

\* ------------------------------------------------------------------ sending

\* The calls the applications make: through the facade (params || {}), and on
\* the connection with no params.
SendChoices == {<<"m", "empty">>, <<"m", "big">>, <<"hello", "none">>}
ErrCannotSend == EvSimple("Error", "Cannot send message: Secure channel not established")

\* websocket.send(frame) on the socket the call captured: the frame goes out
\* when that socket is still the open one; a socket that is closing or closed
\* discards it without failing.
CanSend(c, gen) == c.websocket = "open" /\ c.sockGen = gen
\* What fails inside sendEncryptedJsonRpcRequest: encrypting with no key, and
\* send on no socket or on a socket that has not opened.
SendThrows(c) == c.sharedSecret = NoSecret \/ c.websocket \in {"none", "connecting"}
\* What sendSecureMessage returned to the application.
Returned(value) == Ev("Returned", "sendSecureMessage", "none", value, NoOrigin, NoOrigin)

\* The guard of sendSecureMessage (bridge-connection.ts 556).
NotReadyUnlessConnected(c) == ~c.isConnected
NotReady(c) == ~c.isConnected \/ ~c.secureChannelEstablished

\* sendSecureMessage up to the first pacing wait (bridge-connection.ts 555-565,
\* json-rpc.ts 105-120).
sendSecureMessage(c, method, params, firstId) ==
  IF NotReady(c)
  THEN Result(c, <<ErrCannotSend, Returned("false")>>, {}, 0)
  ELSE IF SendThrows(c)
  THEN Result(c, <<Returned("false")>>, {}, 0)
  ELSE LET frames == getEncryptedJsonPayload(c.role, OriginHeader(c), method, params,
                                             c.sharedSecret, bridgeId, firstId)
       IN Result([c EXCEPT !.tasks = @ \cup {[rest |-> Tail(frames),
                                              ids |-> {frames[1].id},
                                              gen |-> c.sockGen]}],
                 <<>>, IF CanSend(c, c.sockGen) THEN {frames[1]} ELSE {},
                 IdsDrawn(params))

\* One pacing wait of a send is over: the next envelope goes out, or the call
\* returns and its ids are recorded (json-rpc.ts 112-127, bridge-connection.ts
\* 566-570).
sendContinue(c, t) ==
  IF t.rest # <<>>
  THEN Result([c EXCEPT !.tasks = (@ \ {t}) \cup
                          {[t EXCEPT !.rest = Tail(@), !.ids = @ \cup {Head(t.rest).id}]}],
              <<>>, IF CanSend(c, t.gen) THEN {Head(t.rest)} ELSE {}, 0)
  ELSE Result([c EXCEPT !.tasks = @ \ {t}, !.seenMessageIds = @ \cup t.ids],
              <<Returned("true")>>, {}, 0)

\* The application calls sendMessage(method, params) with one of the given
\* choices.
SendSecureMessageOf(p, choices) ==
  /\ budget.sends < budget.sendLimit
  /\ \E choice \in choices :
       LET method == choice[1]
           params == choice[2]
           r == sendSecureMessage(conn[p], method, params, nextId)
       IN /\ Apply(p, "send", NoFrame, r)
          /\ sent' = IF r.c.tasks = conn[p].tasks THEN sent
                     ELSE Append(sent,
                            [from |-> p, method |-> method, params |-> params,
                             ids |-> messageIds(getEncryptedJsonPayload(
                                      p, OriginHeader(conn[p]), method, params,
                                      conn[p].sharedSecret, bridgeId, nextId)),
                             gen |-> conn[p].sockGen,
                             both |-> conn[Other(p)].secureChannelEstablished,
                             overlaps |-> conn[p].tasks # {}])
  /\ budget' = [budget EXCEPT !.sends = @ + 1]

SendSecureMessage(p) == SendSecureMessageOf(p, SendChoices)

SendContinue(p) ==
  \E t \in conn[p].tasks :
    /\ Apply(p, "sendContinue", NoFrame, sendContinue(conn[p], t))
    /\ UNCHANGED <<sent, budget>>

\* -------------------------------------------------------- closing, reconnect

\* The socket of p closes: the close the application asked for completes, or
\* the network drops the connection.
CloseEvent(p) ==
  /\ conn[p].websocket \in {"connecting", "open", "closing"}
  /\ conn[p].websocket = "closing" \/ budget.faults < budget.limit
  /\ Apply(p, "close", NoFrame, onclose(conn[p]))
  /\ budget' = [budget EXCEPT !.faults = IF conn[p].websocket = "closing" THEN @ ELSE @ + 1]
  /\ UNCHANGED sent

\* The reconnect timer fires (bridge-connection.ts 506-513).
ReconnectTimer(p) ==
  /\ conn[p].reconnectTimer
  /\ Apply(p, "reconnect", NoFrame,
           Result(OpenSocket([conn[p] EXCEPT !.reconnectTimer = FALSE], nextId), <<>>, {},
                  IF UrlHasMoc(conn[p]) THEN 1 ELSE 0))
  /\ UNCHANGED <<sent, budget>>

\* The reconnect timer fires and getWebSocketClient throws: the callback
\* calls handleReconnect again (bridge-connection.ts 506-517).
ReconnectFail(p) ==
  /\ conn[p].reconnectTimer
  /\ Apply(p, "reconnectFail", NoFrame,
           Result(handleReconnect([conn[p] EXCEPT !.reconnectTimer = FALSE]), <<>>, {}, 0))
  /\ UNCHANGED <<sent, budget>>

\* cleanup() (bridge-connection.ts 791-795): close() starts the closing
\* handshake of a socket that is connecting or open, and does nothing else.
cleanup(c) ==
  [c EXCEPT !.intentionalClose = TRUE,
            !.websocket = IF @ \in {"connecting", "open"} THEN "closing" ELSE @]

\* The application calls close().
Cleanup(p) ==
  /\ budget.faults < budget.limit
  /\ ~conn[p].intentionalClose
  /\ Apply(p, "cleanup", NoFrame, Result(cleanup(conn[p]), <<>>, {}, 0))
  /\ budget' = [budget EXCEPT !.faults = @ + 1]
  /\ UNCHANGED sent

\* ------------------------------------------------------------ hostile relay

AttackerGreeting == encrypt(Text("hello"), getSharedSecret("kA", "kX"), bridgeId)
ForgedOrigins == {OriginAPort, OriginB, NoOrigin}

\* What the relay can make up: handshakes of its own (with a key of its own,
\* with a key that is no curve point, or with no params), envelopes it has
\* seen under another id or origin, envelopes without id, control frames, and
\* text that is no JSON object.
ForgedFrames ==
  {Frame("relay", id, "handshake", OriginB, "kX", g, Garbage) :
     id \in AdvIds, g \in {AttackerGreeting, Garbage}}
  \cup {Frame("relay", id, "handshake", OriginB, k, Garbage, Garbage) :
          id \in AdvIds, k \in {"bad", NoKey}}
  \cup {[f EXCEPT !.src = "relay", !.id = id] : f \in wire, id \in AdvIds}
  \cup {[f EXCEPT !.src = "relay", !.id = id, !.origin = o] :
          f \in wire, id \in AdvIds, o \in ForgedOrigins}
  \cup {Frame("relay", NoId, m, NoOrigin, NoKey, Garbage, Garbage) :
          m \in {"ping", "pong", "encryptedMessage", "unparseable"}}

\* The relay sends p an envelope it made up.
Forge(p) ==
  /\ budget.faults < budget.limit
  /\ \E f \in ForgedFrames : Deliver(p, f, "forge")

Next ==
  \E p \in Peers :
    \/ Connect(p)
    \/ Open(p)
    \/ Receive(p)
    \/ Replay(p)
    \/ Echo(p)
    \/ Forge(p)
    \/ HandshakeResume(p)
    \/ SendSecureMessage(p)
    \/ SendContinue(p)
    \/ CloseEvent(p)
    \/ ReconnectTimer(p)
    \/ ReconnectFail(p)
    \/ Cleanup(p)

Spec == Init /\ [][Next]_vars

\* -------------------------------------------------------- the honest relay

\* A fresh session whose Creator was created with one of three origins, and a
\* relay that forwards every envelope to the other peer once.  Each timer of
\* the core fires, and the relay delivers what it holds.
LiveInit == \E origin \in {OriginA, OriginAPort, OriginNode} : InitWith(origin, FALSE, FALSE)

LiveNext ==
  \E p \in Peers :
    \/ Connect(p)
    \/ Open(p)
    \/ Receive(p)
    \/ HandshakeResume(p)
    \/ SendSecureMessage(p)
    \/ SendContinue(p)

LiveSpec ==
  /\ LiveInit
  /\ [][LiveNext]_vars
  /\ \A p \in Peers :
       /\ WF_vars(Connect(p))
       /\ WF_vars(Open(p))
       /\ WF_vars(Receive(p))
       /\ WF_vars(HandshakeResume(p))
       /\ WF_vars(SendContinue(p))

\* ------------------------------------------- the relay that drops sockets

\* The network drops an open socket.
NetworkDrop(p) == conn[p].websocket = "open" /\ CloseEvent(p)

\* A fresh or resumed session over a relay that forwards every envelope once,
\* drops open sockets and accepts every new socket.  Each timer of the core
\* fires.
ReconnectNext ==
  \E p \in Peers :
    \/ Connect(p)
    \/ Open(p)
    \/ Receive(p)
    \/ HandshakeResume(p)
    \/ SendSecureMessage(p)
    \/ SendContinue(p)
    \/ NetworkDrop(p)
    \/ ReconnectTimer(p)

ReconnectSpec ==
  /\ Init
  /\ [][ReconnectNext]_vars
  /\ \A p \in Peers :
       /\ WF_vars(Connect(p))
       /\ WF_vars(Open(p))
       /\ WF_vars(Receive(p))
       /\ WF_vars(HandshakeResume(p))
       /\ WF_vars(SendContinue(p))
       /\ WF_vars(ReconnectTimer(p))

\* ------------------------------------------------ the life of a connection

\* The ping interval fires (bridge-connection.ts 147-156).
PingTick(p) ==
  /\ conn[p].pingTimer
  /\ Apply(p, "ping", NoFrame,
           Result(conn[p],
                  IF conn[p].websocket = "open" THEN <<SentCtl("ping")>> ELSE <<>>, {}, 0))
  /\ UNCHANGED <<sent, budget>>

\* The close the application asked for completes.
CloseCompletes(p) == conn[p].websocket = "closing" /\ CloseEvent(p)

\* A fresh session, with or without the reconnect option, over a relay that
\* forwards every envelope once.  Sockets close before or after they open,
\* getWebSocketClient can fail in the reconnect timer, and the applications
\* call close(); a run has one fault more than under the hostile relay.
LifeInit == \E reconnect \in BOOLEAN : InitState(OriginA, FALSE, FALSE, reconnect, MaxFaults + 1)

LifeNext ==
  \E p \in Peers :
    \/ Connect(p)
    \/ Open(p)
    \/ Receive(p)
    \/ HandshakeResume(p)
    \/ SendSecureMessage(p)
    \/ SendContinue(p)
    \/ CloseEvent(p)
    \/ ReconnectTimer(p)
    \/ ReconnectFail(p)
    \/ Cleanup(p)
    \/ PingTick(p)

LifeSpec ==
  /\ LifeInit
  /\ [][LifeNext]_vars
  /\ \A p \in Peers :
       /\ WF_vars(Connect(p))
       /\ WF_vars(Open(p))
       /\ WF_vars(Receive(p))
       /\ WF_vars(HandshakeResume(p))
       /\ WF_vars(SendContinue(p))
       /\ WF_vars(ReconnectTimer(p) \/ ReconnectFail(p))
       /\ WF_vars(CloseCompletes(p))

\* ------------------------------------------------------- chunk reassembly

\* Ids of envelopes that are not drawn by the two connections: the outer ids
\* the relay gives envelopes it sends again, and the ids a remote application
\* built on another implementation of the protocol uses.
ExtraIds == (MaxIds + NumAdvIds + 1)..(MaxIds + NumAdvIds + MaxExtraIds)

\* The relay sends p an envelope of the other peer again under an outer id p
\* has not seen.
Rewrap(p) ==
  /\ budget.faults < budget.limit
  /\ \E f \in wire, id \in ExtraIds \ conn[p].seenMessageIds :
       /\ f.src = Other(p)
       /\ f.method = "encryptedMessage"
       /\ Deliver(p, [f EXCEPT !.src = "relay", !.id = id], "rewrap")

\* The chunk envelopes a remote application that holds the session key can
\* send: any slice of a blob at any index, with any chunk count.
RemoteChunks(c, outerId, cid) ==
  {EncryptedFrame("remote", outerId, OriginHeader(c),
     encrypt(InnerChunk("m", ChunkSlice(Blob("big"), slice), cid, index, length),
             c.sharedSecret, bridgeId)) :
     slice \in 0..1, index \in 0..1, length \in 2..3}

\* p receives a chunk envelope of a remote application that is not this
\* library.
RemoteChunk(p) ==
  /\ budget.faults < budget.limit
  /\ conn[Other(p)].sharedSecret # NoSecret
  /\ \E id \in ExtraIds \ conn[p].seenMessageIds :
       \E f \in RemoteChunks(conn[Other(p)], id, CHOOSE x \in ExtraIds : TRUE) :
         Deliver(p, f, "remote")

\* A session without closes in which the relay may send envelopes again under
\* new ids and the remote application may be another implementation.
ChunkInit == \E resume \in BOOLEAN :
  InitState(OriginA, resume, resume, TRUE, MaxExtraIds)

ChunkNext ==
  \E p \in Peers :
    \/ Connect(p)
    \/ Open(p)
    \/ Receive(p)
    \/ HandshakeResume(p)
    \/ SendSecureMessage(p)
    \/ SendContinue(p)
    \/ Rewrap(p)
    \/ RemoteChunk(p)

ChunkSpec == ChunkInit /\ [][ChunkNext]_vars

\* ------------------------------------------------------- concurrent calls

\* Two calls whose params go out as two chunks each.
LargeChoices == {<<"m", "big">>, <<"n", "large">>}

\* The application calls sendMessage with large params.
SendLarge(p) == SendSecureMessageOf(p, LargeChoices)

\* A session both applications resume from stored keys, with an honest relay,
\* in which the applications make two calls that may be in flight together.
ConcurrentInit == InitBounded(OriginA, TRUE, TRUE, TRUE, 0, MaxSends + 1, MaxIds + 1)

ConcurrentNext ==
  \E p \in Peers :
    \/ Connect(p)
    \/ Open(p)
    \/ Receive(p)
    \/ SendLarge(p)
    \/ SendContinue(p)

ConcurrentSpec == ConcurrentInit /\ [][ConcurrentNext]_vars

\* ------------------------------------------------------------ subscriptions

\* What a step in which the application calls the library reports: the call,
\* its argument, and its outcome.
Called(method, options, outcome) == Ev("Called", method, options, outcome, NoOrigin, NoOrigin)

\* this.eventListeners[event].indexOf(callback), 0 for -1.
IndexOf(list, callback) ==
  IF \E i \in DOMAIN list : list[i] = callback
  THEN CHOOSE i \in DOMAIN list : list[i] = callback /\ \A j \in 1..(i - 1) : list[j] # callback
  ELSE 0

\* splice(index, 1).
Splice(list, index) == SubSeq(list, 1, index - 1) \o SubSeq(list, index + 1, Len(list))

\* on(event, callback) (bridge-connection.ts 102-105).
on(c, event, callback) == [c EXCEPT !.listeners[event] = Append(@, callback)]

\* off(event, callback) (bridge-connection.ts 112-117).
off(c, event, callback) ==
  LET index == IndexOf(c.listeners[event], callback)
  IN IF index # 0 THEN [c EXCEPT !.listeners[event] = Splice(@, index)] ELSE c

\* emit(event, ...) (bridge-connection.ts 125-135): map visits the indices
\* 1..len of the array as it is when each index comes up, len being the
\* length at the start; every listener runs up to its first await inside
\* the map callback.  The result is the connection afterwards and the
\* listeners invoked, in order.
RECURSIVE EmitFrom(_, _, _, _, _)
EmitFrom(c, event, k, len, invoked) ==
  IF k > len THEN [c |-> c, invoked |-> invoked]
  ELSE IF k > Len(c.listeners[event]) THEN EmitFrom(c, event, k + 1, len, invoked)
  ELSE LET listener == c.listeners[event][k]
       IN EmitFrom(IF listener = "once" THEN off(c, event, listener) ELSE c,
                   event, k + 1, len, Append(invoked, listener))
emit(c, event) == EmitFrom(c, event, 1, Len(c.listeners[event]), <<>>)

Invoked(event, listener) == Ev("Invoked", event, "none", listener, NoOrigin, NoOrigin)

\* The application subscribes a function it has not registered for that
\* event type.
On(p) ==
  \E event \in ListenerTypes, callback \in Callbacks :
    /\ Len(conn[p].listeners[event]) < MaxListeners
    /\ IndexOf(conn[p].listeners[event], callback) = 0
    /\ Apply(p, "on", NoFrame,
             Result(on(conn[p], event, callback),
                    <<Called("on", event, callback)>>, {}, 0))
    /\ UNCHANGED <<sent, budget>>

\* The application calls the function a subscription returned.
Unsubscribe(p) ==
  \E event \in ListenerTypes, callback \in Callbacks :
    /\ IndexOf(conn[p].listeners[event], callback) # 0
    /\ Apply(p, "off", NoFrame,
             Result(off(conn[p], event, callback),
                    <<Called("off", event, callback)>>, {}, 0))
    /\ UNCHANGED <<sent, budget>>

\* A handler of the connection emits an event.
Emit(p) ==
  \E event \in ListenerTypes :
    LET r == emit(conn[p], event)
    IN /\ Apply(p, "emit", NoFrame,
                Result(r.c,
                       <<Called("emit", event, "")>>
                         \o [i \in DOMAIN r.invoked |-> Invoked(event, r.invoked[i])],
                       {}, 0))
       /\ UNCHANGED <<sent, budget>>

\* A session whose applications subscribe, unsubscribe and are sent events.
ListenerNext == \E p \in Peers : On(p) \/ Unsubscribe(p) \/ Emit(p)

ListenerSpec == Init /\ [][ListenerNext]_vars

\* -------------------------------------------------------------- the facade

\* The options of Bridge.create and Bridge.join the applications pass; browser
\* says whether window is defined where the call is made.
CreateOptions ==
  [origin : {NoOrigin, OriginA}, keyPair : {NoKey, "kA"}, remotePublicKey : {NoKey, "kB"},
   resume : BOOLEAN, autoconnect : BOOLEAN, browser : BOOLEAN]
JoinOptions == [keyPair : {NoKey, "kB"}, resume : BOOLEAN]

\* window.location.protocol + "//" + window.location.hostname.
WindowOrigin == OriginA

\* The argument checks of Bridge.create (part_010 99-114) and Bridge.join
\* (part_010 180-183): the message of the error thrown, "" for none.
OriginForbiddenNever(options) == FALSE
OriginForbidden(options) == options.origin # NoOrigin /\ options.browser
ResumeArgsInvalidLax(options) == options.resume /\ options.keyPair = NoKey
ResumeArgsInvalid(options) ==
  options.resume /\ (options.keyPair = NoKey \/ options.remotePublicKey = NoKey)
CreateThrows(options) ==
  IF OriginForbidden(options)
  THEN "Origin can't be specified when running in browser"
  ELSE IF options.remotePublicKey # NoKey /\ ~options.resume
  THEN "Can only provide remotePublicKey when resuming a bridge session"
  ELSE IF ResumeArgsInvalid(options)
  THEN "Resuming a bridge session requires a keyPair and remotePublicKey"
  ELSE ""
JoinThrows(options) ==
  IF options.resume /\ options.keyPair = NoKey
  THEN "Resuming a bridge session requires a keyPair" ELSE ""

\* The origin Bridge.create gives the connection (part_010 103-106).
CreateOrigin(options) ==
  IF options.origin # NoOrigin THEN options.origin
  ELSE IF options.browser THEN WindowOrigin ELSE OriginNode

\* No BridgeConnection has been constructed for p yet.
NotCreated(p) == [NewConnection(p, NoOrigin, NoOrigin, FALSE) EXCEPT !.role = "none"]

\* The application calls Bridge.create(options) (part_010 92-148).
BridgeCreate ==
  /\ conn["creator"].role = "none"
  /\ \E options \in CreateOptions :
       LET c == NewConnection("creator", CreateOrigin(options), NoOrigin, options.resume)
       IN IF CreateThrows(options) # ""
          THEN Apply("creator", "create", NoFrame,
                     Result(conn["creator"],
                            <<Called("create", options, CreateThrows(options))>>, {}, 0))
          ELSE Apply("creator", "create", NoFrame,
                     Result(IF options.resume \/ options.autoconnect
                            THEN OpenSocket(c, nextId) ELSE c,
                            <<Called("create", options, "created")>>, {}, 0))
  /\ UNCHANGED <<sent, budget>>

\* The application calls Bridge.join(uri, options) with the connection string
\* of a Creator of origin OriginA (part_010 175-213).
BridgeJoin ==
  /\ conn["joiner"].role = "none"
  /\ \E options \in JoinOptions :
       LET c == NewConnection("joiner", NoOrigin, OriginA, options.resume)
       IN IF JoinThrows(options) # ""
          THEN Apply("joiner", "join", NoFrame,
                     Result(conn["joiner"],
                            <<Called("join", options, JoinThrows(options))>>, {}, 0))
          ELSE Apply("joiner", "join", NoFrame,
                     Result(OpenSocket(c, nextId),
                            <<Called("join", options, "created")>>, {},
                            IF UrlHasMoc(c) THEN 1 ELSE 0))
  /\ UNCHANGED <<sent, budget>>

\* Before any call of the facade; afterwards the sockets open and the
\* handshake runs over a relay that forwards every envelope once.
FacadeInit ==
  /\ conn = [p \in Peers |-> NotCreated(p)]
  /\ wire = {}
  /\ nextId = 1
  /\ emitted = NoEvents
  /\ received = [p \in Peers |-> <<>>]
  /\ sceCount = [p \in Peers |-> 0]
  /\ sent = <<>>
  /\ budget = [faults |-> 0, sends |-> 0, limit |-> 0,
               sendLimit |-> MaxSends, idLimit |-> MaxIds]

FacadeNext ==
  \/ BridgeCreate
  \/ BridgeJoin
  \/ \E p \in Peers :
       \/ Open(p)
       \/ Receive(p)
       \/ HandshakeResume(p)

FacadeSpec == FacadeInit /\ [][FacadeNext]_vars

\* -------------------------------------------------------------- properties

\* The steps in which onmessage runs.
DeliveryOps == {"receive", "replay", "echo", "forge"}
HasEvent(evs, type) == \E i \in DOMAIN evs : evs[i].type = type

\* C1: whenever a peer accepts an inbound envelope (counts it in
\* validMessagesReceived), the step is the handling of an envelope whose id is
\* non-empty, was not in seenMessageIds just before, and is in it just after.
C1_AcceptedIdIsFresh ==
  [][\A p \in Peers :
       conn'[p].validMessagesReceived # conn[p].validMessagesReceived
       => /\ emitted'.peer = p
          /\ emitted'.op \in DeliveryOps
          /\ emitted'.frame.id # NoId
          /\ emitted'.frame.id \notin conn[p].seenMessageIds
          /\ emitted'.frame.id \in conn'[p].seenMessageIds]_vars

\* A peer has just accepted an envelope of the other peer.
C1_Witness ==
  \E p \in Peers :
    /\ emitted.peer = p
    /\ emitted.op = "receive"
    /\ conn[p].validMessagesReceived >= 1
    /\ emitted.frame.id \in conn[p].seenMessageIds

\* C2: when the relay sends a peer again an envelope it delivered before, no
\* MessageReceived is emitted and validMessagesReceived stays; and no step
\* ever removes an id from seenMessageIds.
C2_ReplayIsIdempotent ==
  [][\A p \in Peers :
       /\ conn[p].seenMessageIds \subseteq conn'[p].seenMessageIds
       /\ (emitted'.peer = p /\ emitted'.op = "replay")
            => /\ received'[p] = received[p]
               /\ conn'[p].validMessagesReceived = conn[p].validMessagesReceived
               /\ ~HasEvent(emitted'.evs, "MessageReceived")]_vars

\* The relay has just replayed the envelope that gave a peer a MessageReceived.
C2_Witness ==
  \E p \in Peers :
    /\ emitted.peer = p
    /\ emitted.op = "replay"
    /\ \E i \in DOMAIN received[p] : received[p][i].id = emitted.frame.id

\* C3: in every reachable state, a peer whose secureChannelEstablished is true
\* holds a shared secret and a remote public key.
C3_EstablishedHasKeys ==
  \A p \in Peers :
    conn[p].secureChannelEstablished
    => conn[p].sharedSecret # NoSecret /\ conn[p].remotePublicKey # NoKey

\* C4: once a peer holds a shared secret, no inbound envelope changes it.
C4_SharedSecretNeverChanges ==
  [][\A p \in Peers :
       (conn[p].sharedSecret # NoSecret /\ emitted'.peer = p /\ emitted'.op \in DeliveryOps)
       => conn'[p].sharedSecret = conn[p].sharedSecret]_vars

\* A step in which peer p accepts an envelope of the given method.
Accepts(p, method) ==
  /\ emitted'.peer = p
  /\ emitted'.op \in DeliveryOps
  /\ emitted'.frame.method = method
  /\ conn'[p].validMessagesReceived # conn[p].validMessagesReceived

\* C5: when the Creator, with the secure channel established, accepts a
\* handshake whose pubkey differs from the stored remote public key, it emits
\* the Error, sends an error frame and no hello, and keeps its keys.
C5_DifferentKeyHandshakeRejected ==
  [][(/\ Accepts("creator", "handshake")
      /\ conn["creator"].secureChannelEstablished
      /\ emitted'.frame.pubkey # NoKey
      /\ emitted'.frame.pubkey # conn["creator"].remotePublicKey)
     => /\ emitted'.evs = <<ErrEstablished, SentCtl("error")>>
        /\ wire' = wire
        /\ conn'["creator"].hsPending = conn["creator"].hsPending
        /\ conn'["creator"].remotePublicKey = conn["creator"].remotePublicKey
        /\ conn'["creator"].sharedSecret = conn["creator"].sharedSecret]_vars

\* The established Creator has just turned down the relay's own handshake.
C5_Witness ==
  /\ emitted.peer = "creator"
  /\ emitted.op = "forge"
  /\ emitted.frame.method = "handshake"
  /\ emitted.frame.pubkey = "kX"
  /\ emitted.frame.greeting = AttackerGreeting
  /\ emitted.evs = <<ErrEstablished, SentCtl("error")>>
  /\ conn["creator"].secureChannelEstablished
  /\ conn["creator"].remotePublicKey = "kB"

\* C7: until close() has cleaned the session up, the Creator has emitted
\* SecureChannelEstablished at most once; and a resumed session has emitted it
\* not at all before its first open and exactly once from then on, whatever
\* reconnections follow.
C7_EstablishedEmittedOnce ==
  /\ ~conn["creator"].cleanedUp => sceCount["creator"] <= 1
  /\ \A p \in Peers :
       (conn[p].resumedSession /\ ~conn[p].cleanedUp)
       => sceCount[p] = IF conn[p].lastMessageTimestamp > 0 THEN 1 ELSE 0

\* A Creator that has answered two handshakes with a hello, has finished both,
\* and has emitted the event once.
C7_Witness ==
  /\ sceCount["creator"] = 1
  /\ ~conn["creator"].cleanedUp
  /\ ~conn["creator"].resumedSession
  /\ Cardinality({f \in wire : f.src = "creator" /\ f.method = "encryptedMessage"}) >= 2
  /\ conn["creator"].hsPending = {}

\* C10: when the Joiner accepts an encryptedMessage whose origin, reduced to
\* scheme://host (or absent), is not its bridge origin, it emits exactly an
\* Error that names both origins, no MessageReceived and no ChunkReceived,
\* stores nothing, and does not become established.
C10_JoinerDropsWrongOrigin ==
  [][LET reduced == IF emitted'.frame.origin = NoOrigin THEN NoOrigin
                    ELSE parseOriginHeader(emitted'.frame.origin)
     IN (Accepts("joiner", "encryptedMessage") /\ reduced # conn["joiner"].bridgeOrigin)
        => /\ Len(emitted'.evs) = 1
           /\ emitted'.evs[1].type = "Error"
           /\ emitted'.evs[1].a = reduced
           /\ emitted'.evs[1].b = conn["joiner"].bridgeOrigin
           /\ received' = received
           /\ conn'["joiner"].incompleteMessages = conn["joiner"].incompleteMessages
           /\ conn'["joiner"].secureChannelEstablished
                = conn["joiner"].secureChannelEstablished]_vars

\* The Joiner, not yet established, has just dropped the Creator's hello, which
\* the relay gave it under another origin.
C10_Witness ==
  /\ emitted.peer = "joiner"
  /\ emitted.op = "forge"
  /\ emitted.frame.origin = OriginB
  /\ emitted.frame.payload =
       encrypt(InnerEmpty("hello"), getSharedSecret("kB", "kA"), bridgeId)
  /\ emitted.evs = <<ErrOrigin(conn["joiner"], emitted.frame)>>
  /\ ~conn["joiner"].secureChannelEstablished
  /\ conn["joiner"].sharedSecret # NoSecret

\* C6: with a Creator connected to the relay, a Joiner that joins with the
\* Creator's connection string, and a relay that delivers every envelope, both
\* peers eventually emit SecureChannelEstablished and report the channel
\* established.
C6_BothEventuallyEstablished ==
  <>(\A p \in Peers : conn[p].secureChannelEstablished /\ sceCount[p] >= 1)

\* What the receiver's listener is given for sent params: {} for none.
ParamsReceived(params) == IF params = "none" THEN "empty" ELSE params

\* The relay has delivered every envelope of call s to the other peer.
FullyDelivered(s) == s.ids \subseteq conn[Other(s.from)].seenMessageIds
\* The MessageReceived events of the other peer that envelopes of call s gave.
MessagesOf(s) ==
  {i \in DOMAIN received[Other(s.from)] : received[Other(s.from)][i].id \in s.ids}

\* C8: for every sendMessage call made when both peers were established, the
\* other peer emits at most one MessageReceived for it, and once the relay
\* has delivered the call's envelopes exactly one, with the method and the
\* params of the call ({} for no params).
C8_ExactlyOneMessageReceived ==
  \A k \in DOMAIN sent :
    sent[k].both
    => /\ Cardinality(MessagesOf(sent[k])) <= 1
       /\ FullyDelivered(sent[k]) => Cardinality(MessagesOf(sent[k])) = 1
       /\ \A i \in MessagesOf(sent[k]) :
            /\ received[Other(sent[k].from)][i].method = sent[k].method
            /\ received[Other(sent[k].from)][i].params = ParamsReceived(sent[k].params)

\* A call with params {} made when both were established has been delivered
\* and has given the other peer its MessageReceived.
C8_Witness ==
  \E k \in DOMAIN sent :
    /\ sent[k].both
    /\ sent[k].params = "empty"
    /\ FullyDelivered(sent[k])
    /\ MessagesOf(sent[k]) # {}

\* The receiver of call s lets the envelopes of s through to
\* handleEncryptedMessage.
Admits(s) ==
  \/ s.from = "joiner"
  \/ parseOriginHeader(OriginHeader(conn["creator"])) = conn["joiner"].bridgeOrigin

\* C9: for a call that goes out as N > 1 chunks, each delivered once in any
\* order, the receiver emits no MessageReceived while a chunk is missing, and
\* exactly one once all have arrived, whose params is the sender's params.
C9_ChunksReassembled ==
  \A k \in DOMAIN sent :
    (Cardinality(sent[k].ids) > 1 /\ Admits(sent[k]))
    => /\ MessagesOf(sent[k]) # {} => FullyDelivered(sent[k])
       /\ FullyDelivered(sent[k]) => Cardinality(MessagesOf(sent[k])) = 1
       /\ \A i \in MessagesOf(sent[k]) :
            /\ received[Other(sent[k].from)][i].method = sent[k].method
            /\ received[Other(sent[k].from)][i].params = sent[k].params

\* A two-chunk call whose chunk 0 came last: the MessageReceived was emitted
\* in the handling of the envelope with the call's first outer id.
C9_Witness ==
  \E k \in DOMAIN sent :
    /\ Cardinality(sent[k].ids) > 1
    /\ FullyDelivered(sent[k])
    /\ \E i \in MessagesOf(sent[k]) :
         /\ \A id \in sent[k].ids : received[Other(sent[k].from)][i].id <= id
         /\ received[Other(sent[k].from)][i].params = "big"

\* The last step was p emitting Connected with the given reconnection flag.
EmittedConnected(p, info) ==
  /\ emitted.peer = p
  /\ \E i \in DOMAIN emitted.evs :
       emitted.evs[i].type = "Connected" /\ emitted.evs[i].info = info
\* Every envelope of call s went out on the sender's socket.
AllTransmitted(s) == s.ids \subseteq {f.id : f \in wire}
\* The other peer has emitted exactly one MessageReceived for call s, with
\* the method and params of the call.
ReceivedOnce(s) ==
  /\ Cardinality(MessagesOf(s)) = 1
  /\ \A i \in MessagesOf(s) :
       /\ received[Other(s.from)][i].method = s.method
       /\ received[Other(s.from)][i].params = ParamsReceived(s.params)

\* C11: when the socket of an established peer closes without close() having
\* been called, reconnect is enabled and the relay accepts new sockets, the
\* peer eventually emits Connected with reconnection = true; the close, the
\* new socket and its opening leave secureChannelEstablished true and the
\* shared secret as it was and put no handshake on the wire; and a message
\* the peer sends on the new socket is received by the other peer.
C11_ReconnectKeepsChannel ==
  /\ \A p \in Peers :
       (conn[p].secureChannelEstablished /\ conn[p].isReconnecting)
         ~> EmittedConnected(p, "reconnection")
  /\ [][\A p \in Peers :
          (/\ conn[p].secureChannelEstablished
           /\ emitted'.peer = p
           /\ emitted'.op \in {"close", "reconnect", "open"})
          => /\ conn'[p].secureChannelEstablished
             /\ conn'[p].sharedSecret = conn[p].sharedSecret
             /\ emitted'.op = "reconnect" => conn'[p].mocId = NoId
             /\ wire' = wire]_vars
  /\ \A k \in 1..MaxSends :
       (/\ k \in DOMAIN sent
        /\ sent[k].both
        /\ sent[k].gen > 1
        /\ AllTransmitted(sent[k]))
         ~> (k \in DOMAIN sent /\ ReceivedOnce(sent[k]))

\* A peer that reconnected after a drop has sent a message on its new socket
\* and the other peer has received it.
C11_Witness ==
  \E k \in DOMAIN sent :
    /\ sent[k].both
    /\ sent[k].gen > 1
    /\ conn[sent[k].from].secureChannelEstablished
    /\ conn[sent[k].from].websocket = "open"
    /\ ReceivedOnce(sent[k])

\* C12: from an unintentional close with reconnect enabled until an attempt
\* opens or the maximum number of attempts has been made, the controller has
\* an attempt under way: its timer is pending or the socket of the attempt is
\* connecting.  So an attempt whose socket closes before it opens is followed
\* by the next attempt.
C12_ReconnectKeepsTrying ==
  \A p \in Peers :
    (conn[p].isReconnecting /\ ~conn[p].intentionalClose)
    => (conn[p].reconnectTimer \/ conn[p].websocket = "connecting")

\* C13: the timer of the k-th consecutive attempt is set with a delay of 0 ms
\* for k = 1 and of 1000 * 2^(k-2) ms for k >= 2; no timer is set for a k
\* above the maximum; the counter is 0 whenever the controller is not
\* reconnecting, and an opening reconnect socket and the attempt after the
\* last allowed one both put it back to 0.
C13_BackoffSchedule ==
  /\ [](\A p \in Peers :
         /\ conn[p].reconnectAttempts \in 0..MaxReconnectAttempts
         /\ conn[p].isReconnecting <=> conn[p].reconnectAttempts >= 1
         /\ conn[p].reconnectTimer
            => /\ conn[p].reconnectAttempts >= 1
               /\ conn[p].reconnectAttempts = 1 => conn[p].reconnectIn = 0
               /\ conn[p].reconnectAttempts = 2 => conn[p].reconnectIn = 1000
               /\ conn[p].reconnectAttempts = 3 => conn[p].reconnectIn = 2000
               /\ conn[p].reconnectAttempts = 4 => conn[p].reconnectIn = 4000
               /\ conn[p].reconnectAttempts >= 2
                  => conn[p].reconnectIn = 1000 * 2 ^ (conn[p].reconnectAttempts - 2))
  /\ [][\A p \in Peers :
          /\ (emitted'.peer = p /\ emitted'.op = "open" /\ conn[p].isReconnecting)
             => conn'[p].reconnectAttempts = 0
          /\ (/\ emitted'.peer = p
              /\ emitted'.op = "reconnectFail"
              /\ conn[p].reconnectAttempts = MaxReconnectAttempts)
             => /\ conn'[p].reconnectAttempts = 0
                /\ ~conn'[p].reconnectTimer
                /\ ~conn'[p].isReconnecting]_vars

\* The timer of the third consecutive attempt is pending, set with 2000 ms.
C13_Witness ==
  \E p \in Peers :
    /\ conn[p].reconnectTimer
    /\ conn[p].reconnectAttempts = 3
    /\ conn[p].reconnectIn = 2000

\* C14: once close() has been called on a session, whatever its state, the
\* session gets no new socket, its reconnect timer does not fire, it emits no
\* Connected event, and from the moment the socket close() closed is gone no
\* reconnect or ping timer is pending.
C14_CleanupCancelsEverything ==
  /\ [](\A p \in Peers :
         (conn[p].intentionalClose /\ conn[p].websocket # "closing")
         => (~conn[p].reconnectTimer /\ ~conn[p].pingTimer))
  /\ [][\A p \in Peers :
          (conn[p].intentionalClose /\ emitted'.peer = p)
          => /\ conn'[p].sockGen = conn[p].sockGen
             /\ emitted'.op \notin {"reconnect", "reconnectFail"}
             /\ ~HasEvent(emitted'.evs, "Connected")]_vars

\* What _handleCleanup leaves: no keys, the flag false, no listeners.
Cleaned(p) ==
  /\ conn[p].sharedSecret = NoSecret
  /\ conn[p].remotePublicKey = NoKey
  /\ ~conn[p].secureChannelEstablished
  /\ ~conn[p].eventListeners

\* C15: after close() has been called on a session, whatever its state (its
\* socket never opened or already closed included), the session reaches a
\* state with sharedSecret and remotePublicKey cleared,
\* secureChannelEstablished false and every listener removed.
C15_CleanupClearsSecrets ==
  \A p \in Peers : conn[p].intentionalClose ~> Cleaned(p)

\* The events of the given type in a sequence of events.
EventsOf(evs, type) == SelectSeq(evs, LAMBDA e : e.type = type)

\* C16: at each close event of a socket, a session that was connected emits
\* exactly one Disconnected and no FailedToConnect, and when close() had not
\* been called the event says the close was not intentional and its
\* willReconnect equals the reconnect option; a session that was not
\* connected yet and on which close() had not been called emits exactly one
\* FailedToConnect and no Disconnected.
C16_CloseEvents ==
  [][\A p \in Peers :
       (emitted'.peer = p /\ emitted'.op = "close")
       => LET disconnected == EventsOf(emitted'.evs, "Disconnected")
              failed == EventsOf(emitted'.evs, "FailedToConnect")
          IN /\ conn[p].isConnected
                => /\ Len(disconnected) = 1
                   /\ Len(failed) = 0
                   /\ ~conn[p].intentionalClose
                      => /\ disconnected[1].method = "unintentional"
                         /\ disconnected[1].info = "willReconnect" <=> conn[p].reconnect
             /\ (~conn[p].isConnected /\ ~conn[p].intentionalClose)
                => /\ Len(failed) = 1
                   /\ Len(disconnected) = 0]_vars

\* A connected session created with reconnect: false has just lost its
\* socket and emitted Disconnected.
C16_Witness ==
  \E p \in Peers :
    /\ emitted.peer = p
    /\ emitted.op = "close"
    /\ ~conn[p].reconnect
    /\ ~conn[p].intentionalClose
    /\ Len(EventsOf(emitted.evs, "Disconnected")) = 1

\* C17: when a reconnect socket opens and lastMessageTimestamp is above 0,
\* the peer first sends on that socket a replay request whose timestamp is
\* lastMessageTimestamp - 1000 and then emits Connected with reconnection =
\* true; the opening of a first socket sends no replay request.
C17_ReplayRequestOnReconnect ==
  [][\A p \in Peers :
       (emitted'.peer = p /\ emitted'.op = "open")
       => /\ (conn[p].isReconnecting /\ conn[p].lastMessageTimestamp > 0)
             => /\ conn'[p].websocket = "open"
                /\ Len(emitted'.evs) = 2
                /\ emitted'.evs[1].type = "Sent"
                /\ emitted'.evs[1].method = "replay"
                /\ emitted'.evs[1].a = <<conn[p].lastMessageTimestamp - 1000>>
                /\ emitted'.evs[2].type = "Connected"
                /\ emitted'.evs[2].info = "reconnection"
          /\ ~conn[p].isReconnecting
             => \A i \in DOMAIN emitted'.evs :
                  ~(emitted'.evs[i].type = "Sent" /\ emitted'.evs[i].method = "replay")]_vars

\* A reconnect socket has just opened and the peer has sent its replay
\* request.
C17_Witness ==
  /\ emitted.op = "open"
  /\ conn[emitted.peer].sockGen > 1
  /\ Len(emitted.evs) = 2
  /\ emitted.evs[1].method = "replay"
  /\ emitted.evs[1].a = <<Now - 1000>>

\* C18: a session created with resume emits, when its first socket opens,
\* Connected with reconnection = false and then SecureChannelEstablished; it
\* sends no handshake (no socket of a resumed Joiner carries a moc) and
\* handles none; and a message it sends on that socket is received by the
\* other peer, which holds the keys of the session.
C18_ResumedSession ==
  /\ [][\A p \in Peers :
          (/\ emitted'.peer = p
           /\ emitted'.op = "open"
           /\ conn[p].resumedSession
           /\ ~conn[p].isReconnecting)
          => /\ emitted'.evs = <<EvSimple("Connected", "initial"),
                                 EvSimple("SecureChannelEstablished", "")>>
             /\ wire' = wire]_vars
  /\ [](\A p \in Peers :
         conn[p].resumedSession
         => /\ conn[p].mocId = NoId
            /\ conn[p].hsPending = {}
            /\ \A f \in wire : f.method # "handshake")
  /\ \A k \in 1..MaxSends :
       (/\ k \in DOMAIN sent
        /\ conn[sent[k].from].resumedSession
        /\ sent[k].gen = 1
        /\ AllTransmitted(sent[k]))
         ~> (k \in DOMAIN sent /\ ReceivedOnce(sent[k]))

\* A resumed session has sent a message on its first socket and the other
\* peer has received it.
C18_Witness ==
  \E k \in DOMAIN sent :
    /\ conn[sent[k].from].resumedSession
    /\ sent[k].gen = 1
    /\ sceCount[sent[k].from] = 1
    /\ ReceivedOnce(sent[k])

\* The value the call that has just returned gave the application.
ReturnValues(evs) == {evs[i].info : i \in {j \in DOMAIN evs : evs[j].type = "Returned"}}

C19_WitnessThrows ==
  /\ emitted.op = "send"
  /\ conn[emitted.peer].secureChannelEstablished
  /\ conn[emitted.peer].isConnected
  /\ conn[emitted.peer].sharedSecret = NoSecret
  /\ ReturnValues(emitted.evs) = {"false"}

\* C20: an envelope whose handling ends in an Error event leaves
\* secureChannelEstablished and sharedSecret of the peer as they were.
C20_MalformedFrameChangesNothing ==
  [][\A p \in Peers :
       (/\ emitted'.peer = p
        /\ emitted'.op \in DeliveryOps
        /\ HasEvent(emitted'.evs, "Error"))
       => /\ conn'[p].secureChannelEstablished = conn[p].secureChannelEstablished
          /\ conn'[p].sharedSecret = conn[p].sharedSecret]_vars

\* C21: when both peers have secureChannelEstablished true they hold the same
\* sharedSecret, and the sharedSecret of an established peer is the ECDH
\* secret of its own private key and the remotePublicKey it stores.
C21_SameSharedSecret ==
  /\ (\A p \in Peers : conn[p].secureChannelEstablished)
     => conn["creator"].sharedSecret = conn["joiner"].sharedSecret
  /\ \A p \in Peers :
       conn[p].secureChannelEstablished
       => /\ conn[p].remotePublicKey # NoKey
          /\ ~SharedSecretThrows(conn[p].remotePublicKey)
          /\ conn[p].sharedSecret = getSharedSecret(conn[p].keyPair, conn[p].remotePublicKey)

\* The options of the facade call the last step made.
CalledWith(e) == e.evs[1].params
Rejected(e) == e.evs[1].info # "created"

\* C22: Bridge.create throws, with no connection constructed and no socket
\* opened, when remotePublicKey is given without resume and when resume is
\* given without both keyPair and remotePublicKey; Bridge.join throws when
\* resume is given without keyPair.
C22_ResumeArgumentsChecked ==
  [][/\ emitted'.op = "create"
        => LET o == CalledWith(emitted')
           IN (\/ o.remotePublicKey # NoKey /\ ~o.resume
               \/ o.resume /\ o.keyPair = NoKey
               \/ o.resume /\ o.remotePublicKey = NoKey)
              => /\ Rejected(emitted')
                 /\ conn' = conn
                 /\ conn'["creator"].websocket = "none"
                 /\ wire' = wire
     /\ emitted'.op = "join"
        => LET o == CalledWith(emitted')
           IN (o.resume /\ o.keyPair = NoKey)
              => /\ Rejected(emitted')
                 /\ conn' = conn
                 /\ conn'["joiner"].websocket = "none"
                 /\ wire' = wire]_vars

\* Bridge.create has just rejected resume: true given with a keyPair and no
\* remotePublicKey.
C22_Witness ==
  /\ emitted.op = "create"
  /\ CalledWith(emitted).resume
  /\ CalledWith(emitted).keyPair # NoKey
  /\ CalledWith(emitted).remotePublicKey = NoKey
  /\ ~CalledWith(emitted).browser
  /\ Rejected(emitted)
  /\ conn["creator"].role = "none"

\* C23, as stated: Bridge.create throws when no origin is given outside a
\* browser, and throws when an origin is given in a browser.
C23_OriginRequiredOutsideBrowser ==
  [][emitted'.op = "create"
       => LET o == CalledWith(emitted')
          IN /\ (o.origin = NoOrigin /\ ~o.browser) => Rejected(emitted')
             /\ (o.origin # NoOrigin /\ o.browser) => Rejected(emitted')]_vars

\* C23, amended: Bridge.create throws, with no connection constructed, when
\* an origin is given in a browser; outside a browser a call with no origin
\* and valid resume arguments is not rejected, and the connection it
\* constructs has the origin "nodejs".
C23_OriginForbiddenInBrowser ==
  [][emitted'.op = "create"
       => LET o == CalledWith(emitted')
          IN /\ (o.origin # NoOrigin /\ o.browser)
                => (Rejected(emitted') /\ conn' = conn)
             /\ (/\ o.origin = NoOrigin
                 /\ ~o.browser
                 /\ o.resume = (o.remotePublicKey # NoKey)
                 /\ o.resume => o.keyPair # NoKey)
                => /\ ~Rejected(emitted')
                   /\ conn'["creator"].role = "creator"
                   /\ conn'["creator"].origin = <<"nodejs">>]_vars

\* Bridge.create has just constructed a connection from a call with no
\* origin made outside a browser.
C23_Witness ==
  /\ emitted.op = "create"
  /\ CalledWith(emitted).origin = NoOrigin
  /\ ~CalledWith(emitted).browser
  /\ ~Rejected(emitted)
  /\ conn["creator"].origin = <<"nodejs">>

\* Bridge.create has just rejected an origin given in a browser.
C23_WitnessBrowser ==
  /\ emitted.op = "create"
  /\ CalledWith(emitted).origin # NoOrigin
  /\ CalledWith(emitted).browser
  /\ Rejected(emitted)

\* The listeners the last step invoked.
InvokedBy(e) == {e.evs[i].info : i \in {j \in DOMAIN e.evs : e.evs[j].type = "Invoked"}}
Range(list) == {list[i] : i \in DOMAIN list}

\* C24: calling the function a subscription returned removes that listener
\* and leaves every other listener, of that and of the other event types,
\* registered; and an event is given to exactly the listeners registered for
\* its type, so that a listener is not invoked after its removal and the
\* others go on being invoked.
C24_UnsubscribeRemovesOnlyThatListener ==
  [][\A p \in Peers :
       /\ (emitted'.peer = p /\ emitted'.op = "off")
          => LET event == emitted'.evs[1].params
                 callback == emitted'.evs[1].info
             IN /\ Range(conn'[p].listeners[event])
                     = Range(conn[p].listeners[event]) \ {callback}
                /\ \A t \in ListenerTypes \ {event} :
                     conn'[p].listeners[t] = conn[p].listeners[t]
       /\ (emitted'.peer = p /\ emitted'.op = "emit")
          => InvokedBy(emitted') = Range(conn[p].listeners[emitted'.evs[1].params])]_vars

\* The slots 0..expectedChunks-1 of a buffer are all filled.
Complete(message) == \A i \in 0..(message.expectedChunks - 1) : i \in DOMAIN message.chunks

\* C25: a chunk whose id has a buffer and whose length differs from the
\* buffer's expected count emits an Error, is not stored, emits no
\* MessageReceived, and the buffer of its id is removed.
C25_LengthMismatchDropsGroup ==
  [][\A p \in Peers :
       (/\ emitted'.peer = p
        /\ emitted'.op \in DeliveryOps \cup {"rewrap", "remote"}
        /\ emitted'.frame.method = "encryptedMessage"
        /\ conn[p].sharedSecret # NoSecret
        /\ ~DecryptThrows(emitted'.frame.payload, conn[p].sharedSecret, bridgeId)
        /\ LET inner == decrypt(emitted'.frame.payload, conn[p].sharedSecret, bridgeId)
           IN /\ inner.kind = "json" /\ inner.hasChunk
              /\ inner.cid \in DOMAIN conn[p].incompleteMessages
              /\ conn[p].incompleteMessages[inner.cid].expectedChunks # inner.length)
       => LET inner == decrypt(emitted'.frame.payload, conn[p].sharedSecret, bridgeId)
          IN /\ EventsOf(emitted'.evs, "Error") # <<>>
             /\ EventsOf(emitted'.evs, "MessageReceived") = <<>>
             /\ inner.cid \notin DOMAIN conn'[p].incompleteMessages]_vars

\* C26: after the handling of any frame, no buffer of incomplete_messages
\* has all of its slots 0..expected-1 filled, also when decoding the completed
\* group failed.
C26_NoCompleteBufferKept ==
  \A p \in Peers :
    \A id \in DOMAIN conn[p].incompleteMessages :
      ~Complete(conn[p].incompleteMessages[id])

\* C27: a chunk group gives one MessageReceived: after the group of a chunk
\* id has completed and its MessageReceived was emitted, no accepted frames
\* carrying chunks with that chunk id give another one.
C27_GroupDeliveredOnce ==
  \A p \in Peers :
    \A i, j \in DOMAIN received[p] :
      (received[p][i].chunk # NoId /\ received[p][i].chunk = received[p][j].chunk)
      => i = j

\* C28: when the relay sends a peer one of the peer's own envelopes, at any
\* time after the envelope was put on the wire, the id of the envelope is in
\* the peer's seenMessageIds, the envelope is dropped as a duplicate, and no
\* MessageReceived, ChunkReceived or SecureChannelEstablished is emitted.
C28_OwnEnvelopeDropped ==
  [][\A p \in Peers :
       (emitted'.peer = p /\ emitted'.op = "echo")
       => /\ emitted'.frame.id \in conn[p].seenMessageIds
          /\ \A i \in DOMAIN emitted'.evs :
               emitted'.evs[i].type
                 \notin {"MessageReceived", "ChunkReceived", "SecureChannelEstablished"}]_vars

\* C29: the handling of a frame is complete before the handling of the next
\* frame begins: no frame is given to the handler of a peer while the
\* handling of an earlier frame of that peer is suspended.
C29_FramesHandledOneAtATime ==
  [][\A p \in Peers :
       (emitted'.peer = p /\ emitted'.op \in DeliveryOps)
       => conn[p].hsPending = {}]_vars

\* The chunk id of call s: the id drawn before the outer ids of the call.
ChunkIdOf(s) == (CHOOSE id \in s.ids : \A x \in s.ids : id <= x) - 1
\* The buffer the receiver of call s holds for it has only slices of s, each
\* at its index.
OwnBuffer(s) ==
  LET buffers == conn[Other(s.from)].incompleteMessages
  IN ChunkIdOf(s) \in DOMAIN buffers
     => /\ buffers[ChunkIdOf(s)].expectedChunks = Cardinality(s.ids)
        /\ \A i \in DOMAIN buffers[ChunkIdOf(s)].chunks :
             buffers[ChunkIdOf(s)].chunks[i] = ChunkSlice(Blob(s.params), i)

\* C30: when a peer makes a call of several chunks while another of its calls
\* is still sending, the receiver keeps one buffer per call that holds only
\* chunks of that call, emits at most one MessageReceived per call, and once
\* the envelopes of both have been delivered exactly two, each with the
\* method and the params of one call.
C30_ConcurrentCallsReassembled ==
  \A k, l \in DOMAIN sent :
    (/\ k < l
     /\ sent[k].from = sent[l].from
     /\ sent[l].overlaps
     /\ Cardinality(sent[k].ids) > 1
     /\ Cardinality(sent[l].ids) > 1)
    => /\ OwnBuffer(sent[k]) /\ OwnBuffer(sent[l])
       /\ DOMAIN conn[Other(sent[k].from)].incompleteMessages
            \subseteq {ChunkIdOf(sent[k]), ChunkIdOf(sent[l])}
       /\ Cardinality(MessagesOf(sent[k])) <= 1
       /\ Cardinality(MessagesOf(sent[l])) <= 1
       /\ (FullyDelivered(sent[k]) /\ FullyDelivered(sent[l]))
          => /\ ReceivedOnce(sent[k]) /\ ReceivedOnce(sent[l])
             /\ Len(received[Other(sent[k].from)]) = 2

\* Two calls with different params overlapped, the receiver had a chunk of
\* the second before the first was complete, and both have been received,
\* the second call's message first.
C30_Witness ==
  \E k, l \in DOMAIN sent :
    /\ k < l
    /\ sent[k].from = sent[l].from
    /\ sent[l].overlaps
    /\ sent[k].params # sent[l].params
    /\ FullyDelivered(sent[k]) /\ FullyDelivered(sent[l])
    /\ Len(received[Other(sent[k].from)]) = 2
    /\ received[Other(sent[k].from)][1].id \in sent[l].ids

\* The envelope is a control frame: a ping, a pong, or JSON without an id.
IsControlFrame(f) ==
  f.method \in {"ping", "pong"} \/ (f.id = NoId /\ f.method # "unparseable")

\* C31: a ping gets exactly one pong in reply, and a ping, a pong or a frame
\* without an id changes none of seenMessageIds, validMessagesReceived,
\* lastMessageTimestamp, bridgeOrigin, secureChannelEstablished and
\* incompleteMessages, puts nothing else on the wire and emits no event.
C31_ControlFramesChangeNothing ==
  [][\A p \in Peers :
       (/\ emitted'.peer = p
        /\ emitted'.op \in DeliveryOps
        /\ IsControlFrame(emitted'.frame))
       => /\ emitted'.evs = IF emitted'.frame.method = "ping"
                            THEN <<SentCtl("pong")>> ELSE <<>>
          /\ wire' = wire
          /\ conn'[p].seenMessageIds = conn[p].seenMessageIds
          /\ conn'[p].validMessagesReceived = conn[p].validMessagesReceived
          /\ conn'[p].lastMessageTimestamp = conn[p].lastMessageTimestamp
          /\ conn'[p].bridgeOrigin = conn[p].bridgeOrigin
          /\ conn'[p].secureChannelEstablished = conn[p].secureChannelEstablished
          /\ conn'[p].incompleteMessages = conn[p].incompleteMessages]_vars

\* A peer with a chunk buffer open has just answered a ping.
C31_Witness ==
  /\ emitted.op \in DeliveryOps
  /\ emitted.frame.method = "ping"
  /\ emitted.evs = <<SentCtl("pong")>>
  /\ conn[emitted.peer].incompleteMessages # EmptyMap

\* The greeting of handshake f decrypts to "hello" under the secret the
\* Creator derives from the key f carries.
GreetingOk(f) ==
  /\ ~SharedSecretThrows(f.pubkey)
  /\ ~DecryptThrows(f.greeting, getSharedSecret(KeyOf("creator"), f.pubkey), bridgeId)
  /\ decrypt(f.greeting, getSharedSecret(KeyOf("creator"), f.pubkey), bridgeId) = Text("hello")

\* C32: a Creator that is not established answers a handshake with the
\* encrypted hello, and goes on to mark the channel established, exactly when
\* the greeting decrypts to "hello"; for any other greeting it emits the
\* Error, sends no hello, emits no SecureChannelEstablished, and
\* secureChannelEstablished is false afterwards.
C32_InvalidGreetingAborts ==
  [][(Accepts("creator", "handshake") /\ ~conn["creator"].secureChannelEstablished)
     => IF GreetingOk(emitted'.frame)
        THEN /\ emitted'.evs = <<>>
             /\ \E f \in wire' \ wire :
                  /\ wire' = wire \cup {f}
                  /\ f.src = "creator"
                  /\ f.method = "encryptedMessage"
                  /\ conn'["creator"].hsPending = conn["creator"].hsPending \cup {{f.id}}
        ELSE /\ emitted'.evs = <<ErrHandshake>>
             /\ wire' = wire
             /\ conn'["creator"].hsPending = conn["creator"].hsPending
             /\ ~conn'["creator"].secureChannelEstablished]_vars

\* The Creator has just turned down a handshake with a key of the relay and
\* a greeting that does not decrypt.
C32_Witness ==
  /\ emitted.peer = "creator"
  /\ emitted.op = "forge"
  /\ emitted.frame.method = "handshake"
  /\ emitted.frame.pubkey = "kX"
  /\ emitted.frame.greeting = Garbage
  /\ emitted.evs = <<ErrHandshake>>
  /\ ~conn["creator"].secureChannelEstablished

\* C33: when the Creator, with the secure channel established, accepts a
\* handshake whose pubkey is the stored remote public key, it does not reject
\* it: it sends the encrypted hello again, emits no Error and no
\* SecureChannelEstablished.
C33_SameKeyHandshakeAnswered ==
  [][(/\ Accepts("creator", "handshake")
      /\ conn["creator"].secureChannelEstablished
      /\ emitted'.frame.pubkey = conn["creator"].remotePublicKey
      /\ GreetingOk(emitted'.frame))
     => /\ emitted'.evs = <<>>
        /\ \E f \in wire' \ wire : f.src = "creator" /\ f.method = "encryptedMessage"]_vars

\* The handshake envelopes the last step put on the wire.
NewHandshakes == {f \in wire' \ wire : f.method = "handshake"}

\* C34: the URL of every connect and reconnect carries a moc handshake exactly
\* when the peer is the Joiner and its secure channel is not established at
\* that moment, and the relay broadcasts a handshake only at the opening of a
\* socket whose URL carried one; so the sockets of the Creator and of an
\* established or resumed Joiner put no handshake on the wire.
C34_MocOnlyForUnestablishedJoiner ==
  [][\A p \in Peers :
       emitted'.peer = p
       => /\ emitted'.op \in {"connect", "reconnect"}
             => (conn'[p].mocId # NoId
                   <=> (conn[p].role = "joiner" /\ ~conn[p].secureChannelEstablished))
          /\ emitted'.op = "open"
             => /\ Cardinality(NewHandshakes) = IF conn[p].mocId # NoId THEN 1 ELSE 0
                /\ \A f \in NewHandshakes : f.src = p /\ f.id = conn[p].mocId
                /\ NewHandshakes # {}
                   => conn[p].role = "joiner" /\ ~conn[p].secureChannelEstablished
          /\ emitted'.op \notin {"open"} => NewHandshakes = {}]_vars

\* An established Joiner has reconnected, and its new socket has opened
\* without a handshake.
C34_Witness ==
  /\ emitted.peer = "joiner"
  /\ emitted.op = "open"
  /\ conn["joiner"].sockGen > 1
  /\ conn["joiner"].secureChannelEstablished
  /\ ~conn["joiner"].resumedSession
  /\ conn["joiner"].mocId = NoId

\* The envelopes of call s on the wire, and what they carry.
OnWire(s) == {f \in wire : f.src = s.from /\ f.id \in s.ids}
InnerOf(f) == f.payload.pt
\* The params of the chunks 0..n-1 of call s, concatenated in index order.
RECURSIVE ChunksConcat(_, _)
ChunksConcat(s, n) ==
  IF n = 0 THEN <<>>
  ELSE ChunksConcat(s, n - 1)
         \o InnerOf(CHOOSE f \in OnWire(s) : InnerOf(f).index = n - 1).params

\* C35: a call with params goes out as N = ceil(len(blob) / CHUNK_SIZE)
\* envelopes with distinct fresh outer ids, sent in index order 0..N-1; chunk
\* i carries blob[i * CHUNK_SIZE : (i + 1) * CHUNK_SIZE], all chunks carry the
\* method, one chunk id and the length N, and the chunk params concatenated in
\* index order are the blob.
C35_ChunksPartitionBlob ==
  \A k \in DOMAIN sent :
    sent[k].params # "none"
    => LET s == sent[k]
           blob == Blob(s.params)
           N == (Len(blob) + CHUNK_SIZE - 1) \div CHUNK_SIZE
       IN /\ Cardinality(s.ids) = N
          /\ \A l \in DOMAIN sent : l # k => s.ids \cap sent[l].ids = {}
          /\ \A f \in OnWire(s) :
               /\ f.method = "encryptedMessage"
               /\ InnerOf(f).kind = "json"
               /\ InnerOf(f).hasChunk
               /\ InnerOf(f).method = s.method
               /\ InnerOf(f).length = N
               /\ InnerOf(f).index \in 0..(N - 1)
               /\ InnerOf(f).cid \notin s.ids
               /\ InnerOf(f).params
                    = SubSeq(blob, InnerOf(f).index * CHUNK_SIZE + 1,
                             IF (InnerOf(f).index + 1) * CHUNK_SIZE < Len(blob)
                             THEN (InnerOf(f).index + 1) * CHUNK_SIZE ELSE Len(blob))
               /\ \A i \in 0..(InnerOf(f).index - 1) :
                    \E g \in OnWire(s) : InnerOf(g).index = i
               /\ \A g \in OnWire(s) :
                    /\ InnerOf(g).cid = InnerOf(f).cid
                    /\ InnerOf(g).index = InnerOf(f).index => g = f
          /\ AllTransmitted(s) => ChunksConcat(s, N) = blob

\* A call whose blob is one unit longer than a chunk has gone out whole: two
\* envelopes, the second with the remainder.
C35_Witness ==
  \E k \in DOMAIN sent :
    /\ sent[k].params = "big"
    /\ AllTransmitted(sent[k])
    /\ Cardinality(OnWire(sent[k])) = 2
    /\ \E f \in OnWire(sent[k]) : InnerOf(f).index = 1 /\ Len(InnerOf(f).params) = 1

\* C36: the ping timer is running after every open and is not running after
\* any transport close, it runs only on a socket that has opened and has not
\* closed, and a ping is sent only on an open socket of a connected peer: no
\* ping is sent between a close and the next open.
C36_PingOnlyWhileConnected ==
  [][\A p \in Peers :
       /\ conn'[p].pingTimer => conn'[p].websocket \in {"open", "closing"}
       /\ emitted'.peer = p
          => /\ emitted'.op = "open" => conn'[p].pingTimer
             /\ emitted'.op = "close" => ~conn'[p].pingTimer
             /\ HasEvent(emitted'.evs, "Sent") /\ emitted'.op = "ping"
                => conn[p].websocket = "open" /\ conn[p].isConnected]_vars

\* A peer that had opened has lost its socket without close() having been
\* called and is waiting to reconnect, its ping timer stopped.
C36_Witness ==
  \E p \in Peers :
    /\ emitted.peer = p
    /\ emitted.op = "close"
    /\ HasEvent(emitted.evs, "Disconnected")
    /\ conn[p].reconnectTimer
    /\ ~conn[p].pingTimer

\* C37: no peer emits MessageReceived before it has emitted
\* SecureChannelEstablished; the Creator does not deliver a message that
\* arrives after it has sent hello and before it marks the channel
\* established.
C37_NoMessageBeforeEstablished ==
  \A p \in Peers : received[p] # <<>> => sceCount[p] > 0

\* C38: a handshake that the Creator fails to complete, its greeting not
\* decrypting or not being "hello", leaves remotePublicKey and sharedSecret
\* as they were before the frame was handled.
C38_FailedHandshakeKeepsKeys ==
  [][(/\ Accepts("creator", "handshake")
      /\ emitted'.evs = <<ErrHandshake>>
      /\ ~SharedSecretThrows(emitted'.frame.pubkey)
      /\ ~GreetingOk(emitted'.frame))
     => /\ conn'["creator"].remotePublicKey = conn["creator"].remotePublicKey
        /\ conn'["creator"].sharedSecret = conn["creator"].sharedSecret]_vars

\* C39: the willReconnect field of every emitted Disconnected event is
\* accurate: it is true exactly when the close that emitted it scheduled a
\* reconnect attempt, i.e. left the reconnect timer set for the next attempt.
C39_WillReconnectAccurate ==
  [][\A p \in Peers :
       (emitted'.peer = p /\ emitted'.op = "close")
       => \A i \in 1..Len(emitted'.evs) :
            emitted'.evs[i].type = "Disconnected"
            => (emitted'.evs[i].info = "willReconnect"
                <=> /\ conn'[p].reconnectTimer
                    /\ ~conn[p].reconnectTimer
                    /\ conn'[p].isReconnecting
                    /\ conn'[p].reconnectAttempts = conn[p].reconnectAttempts + 1)]_vars

\* A connected session with the reconnect option has just lost its socket:
\* it emitted Disconnected with willReconnect and its timer is set.
C39_Witness ==
  \E p \in Peers :
    /\ emitted.peer = p
    /\ emitted.op = "close"
    /\ Len(EventsOf(emitted.evs, "Disconnected")) = 1
    /\ EventsOf(emitted.evs, "Disconnected")[1].info = "willReconnect"
    /\ conn[p].reconnectTimer
    /\ conn[p].reconnectAttempts = 1

\* The first socket of p is closed, p is not connected and no reconnect
\* attempt is scheduled or counted.
StaysDisconnected(p) ==
  /\ conn[p].sockGen = 1
  /\ conn[p].websocket = "closed"
  /\ ~conn[p].isConnected
  /\ ~conn[p].reconnectTimer
  /\ ~conn[p].isReconnecting
  /\ conn[p].reconnectAttempts = 0

\* C40: when the first socket of a session closes before it opened, without
\* close() having been called, the session emits FailedToConnect and nothing
\* else, schedules no reconnect attempt whatever the reconnect option, and
\* from then on stays disconnected with no attempt scheduled until the
\* caller connects again.
C40_NoReconnectBeforeFirstOpen ==
  [][\A p \in Peers :
       /\ (/\ emitted'.peer = p
           /\ emitted'.op = "close"
           /\ conn[p].sockGen = 1
           /\ conn[p].websocket = "connecting"
           /\ ~conn[p].intentionalClose)
          => /\ emitted'.evs = <<EvSimple("FailedToConnect", "")>>
             /\ StaysDisconnected(p)'
       /\ (StaysDisconnected(p) /\ ~(emitted'.peer = p /\ emitted'.op = "connect"))
          => StaysDisconnected(p)']_vars

\* A session created with the reconnect option lost its first socket before
\* it opened, and the run went on for at least one more step.
C40_Witness ==
  \E p \in Peers :
    /\ conn[p].reconnect
    /\ ~conn[p].intentionalClose
    /\ StaysDisconnected(p)
    /\ conn[p].validMessagesReceived = 0
    /\ conn[p].lastMessageTimestamp = 0
    /\ emitted.peer # p

====
